---- MODULE Spec2Model ----
(***************************************************************************)
(* Model of scripts/generate_digest.py: build_digest, the triage engine    *)
(* that partitions a pool of scored summaries into the tiers must_know     *)
(* (critical), worth_a_look (notable) and quick_hits (minor).              *)
(*                                                                         *)
(* Python values are encoded as follows.                                   *)
(*  - A summary row s is a record                                          *)
(*      item  : "obj" | "list" | "emptylist" | "null"   (s.get('item'))    *)
(*      rs    : "int" | "null" | "absent"   (shape of s['relevance_score'])*)
(*      score : the integer when rs = "int"                                *)
(*      mr    : "true" | "false" | "null" | "absent"    (s['must_read'])   *)
(*  - The thresholds max_score * 0.7 and max_score * 0.4 are kept in       *)
(*    tenths (high_threshold = 10 * the Python value), so that all         *)
(*    comparisons are exact integer comparisons.  For integer scores the   *)
(*    Python float comparisons agree with the exact ones.                  *)
(***************************************************************************)
EXTENDS Integers, Sequences, FiniteSets, TLC

\* ---------------------------------------------------------------- bounds
MaxLen == 3          \* pools of every shape up to this length
MaxRepeat == 11      \* longest run of one repeated summary in a long pool
MaxRuns == 3         \* runs of generate_digest.main
MaxDay == 2          \* dates the clock goes through
MaxMainLen == 1      \* rows that get_recent_summaries returns
MaxUnits == 3        \* sources of one ingest run, items of one summarize run
MaxEntries == 2      \* entries of one feed

\* ------------------------------------------------------ program constants
Tenths == 10         \* scale of the thresholds (0.7 = 7/10, 0.4 = 4/10)
HighFactor == 7      \* max_score * 0.7
HighFloor == 60
MidFactor == 4       \* max_score * 0.4
MidFloor == 30
MustKnowCap == 3
WorthALookCap == 7
QuickHitsCap == 10
FallbackCount == 2

\* ------------------------------------------------------------ input pools
Scores == {-10, 0, 20, 30, 40, 60, 70, 100, 150}

Summary(it, rs, sc, mr) == [item |-> it, rs |-> rs, score |-> sc, mr |-> mr]

\* rows as summarize.py stores them, with scores not restricted to [0,100]
ScoredSummaries == {Summary("obj", "int", sc, mr) : sc \in Scores, mr \in {"true", "false"}}

\* rows whose fields are missing or of another shape
OddSummaries ==
  { Summary("null", "int", 70, "false"),
    Summary("emptylist", "int", 70, "false"),
    Summary("list", "int", 70, "false"),
    Summary("obj", "null", 0, "false"),
    Summary("obj", "absent", 0, "true"),
    Summary("obj", "int", 70, "null"),
    Summary("obj", "int", 20, "absent") }

Summaries == ScoredSummaries \cup OddSummaries

Repeat(s, k) == [i \in 1..k |-> s]

ShortPools == UNION {[1..n -> Summaries] : n \in 0..MaxLen}

\* a run of one summary repeated, optionally after one other summary
LongPools ==
  {Repeat(s, k) : s \in Summaries, k \in 1..MaxRepeat}
  \cup {<<a>> \o Repeat(s, k) : a \in Summaries, s \in Summaries, k \in 1..MaxRepeat}

Pools == ShortPools \cup LongPools

\* ------------------------------------------------------------------ state
VARIABLES summaries, pc, items, max_score, high_threshold, mid_threshold,
          must_know, worth_a_look, quick_hits

\* generate_digest.main: the clock, the digests table, the emails that Resend
\* accepted, the number of runs so far, and whether the digests table held a
\* row for today when the current run started
VARIABLES today, digests, sent, runs, stored_at_start

\* ingest_rss.main and summarize.main: the program that runs, its position,
\* the number of units of work (sources or items), the loop index, the units
\* the loop has entered, the rows stored (<<source, entry>> or item index),
\* and the counters
VARIABLES prog, bpc, units, idx, attempted, stored, successful, failed,
          total_new, total_skipped

buildVars == <<summaries, pc, items, max_score, high_threshold, mid_threshold,
               must_know, worth_a_look, quick_hits>>
mainVars == <<today, digests, sent, runs, stored_at_start>>
batchVars == <<prog, bpc, units, idx, attempted, stored, successful, failed,
               total_new, total_skipped>>

vars == <<buildVars, mainVars, batchVars>>

\* ---------------------------------------------------------------- helpers
Max(a, b) == IF a >= b THEN a ELSE b
Min(a, b) == IF a <= b THEN a ELSE b

\* seq[:n]
Take(seq, n) == SubSeq(seq, 1, Min(n, Len(seq)))
\* seq[n:]
Drop(seq, n) == SubSeq(seq, Min(n, Len(seq)) + 1, Len(seq))

\* variant: only a null item is skipped, an empty list is taken as an item
HasItemNotNull(s) == s.item # "null"

\* `if not item: continue` (twice): a null item and an empty list are skipped
HasItem(s) == s.item \in {"obj", "list"}

\* the dict appended to items; id is the position of the row in the pool
MakeItem(s, k) ==
  [ id |-> k,
    score_none |-> (s.rs = "null"),
    relevance_score |-> IF s.rs = "int" THEN s.score ELSE 0,
    must_read |-> IF s.mr = "absent" THEN "false" ELSE s.mr ]

RECURSIVE CollectFrom(_, _)
CollectFrom(pool, k) ==
  IF k > Len(pool) THEN <<>>
  ELSE IF HasItem(pool[k]) THEN <<MakeItem(pool[k], k)>> \o CollectFrom(pool, k + 1)
  ELSE CollectFrom(pool, k + 1)

CollectItems(pool) == CollectFrom(pool, 1)

\* truth value of i['must_read'] (None is falsy)
Truthy(i) == i.must_read = "true"

\* comparing None with anything raises TypeError
HasNoneScore(seq) == \E k \in 1..Len(seq) : seq[k].score_none

\* variant: x goes before the elements whose key equals its own (not stable)
RECURSIVE InsertDescStrict(_, _)
InsertDescStrict(x, seq) ==
  IF seq = <<>> THEN <<x>>
  ELSE IF Head(seq).relevance_score > x.relevance_score
       THEN <<Head(seq)>> \o InsertDescStrict(x, Tail(seq))
       ELSE <<x>> \o seq

\* stable insertion: x goes after every element whose key is >= its own
RECURSIVE InsertDesc(_, _)
InsertDesc(x, seq) ==
  IF seq = <<>> THEN <<x>>
  ELSE IF Head(seq).relevance_score >= x.relevance_score
       THEN <<Head(seq)>> \o InsertDesc(x, Tail(seq))
       ELSE <<x>> \o seq

\* variant: the sort is left out and the order of the query is relied on
SortDescMissing(seq) == seq

\* items.sort(key=relevance_score, reverse=True): stable, descending
RECURSIVE SortDesc(_)
SortDesc(seq) ==
  IF seq = <<>> THEN <<>>
  ELSE InsertDesc(seq[Len(seq)], SortDesc(SubSeq(seq, 1, Len(seq) - 1)))

RECURSIVE MaxScore(_)
MaxScore(seq) ==
  IF seq = <<>> THEN 0
  ELSE IF Len(seq) = 1 THEN seq[1].relevance_score
  ELSE Max(Head(seq).relevance_score, MaxScore(Tail(seq)))

HighThreshold(m) == Max(m * HighFactor, HighFloor * Tenths)
MidThreshold(m) == Max(m * MidFactor, MidFloor * Tenths)

\* variant: `and` in place of `or` in the must_know filter
IsMustKnowAnd(i, high) == Truthy(i) /\ i.relevance_score * Tenths >= high

IsMustKnow(i, high) == Truthy(i) \/ i.relevance_score * Tenths >= high

\* variant: the interval closed at high_threshold
IsWorthALookClosed(i, high, mid) ==
  /\ ~Truthy(i)
  /\ mid <= i.relevance_score * Tenths
  /\ i.relevance_score * Tenths <= high

IsWorthALook(i, high, mid) ==
  /\ ~Truthy(i)
  /\ mid <= i.relevance_score * Tenths
  /\ i.relevance_score * Tenths < high

\* variant: `0 <=` in place of `0 <` in the quick_hits filter
IsQuickHitFromZero(i, mid) == 0 <= i.relevance_score /\ i.relevance_score * Tenths < mid

IsQuickHit(i, mid) == 0 < i.relevance_score /\ i.relevance_score * Tenths < mid

MustKnowOf(its, high) ==
  LET Test(i) == IsMustKnow(i, high) IN Take(SelectSeq(its, Test), MustKnowCap)
WorthALookOf(its, high, mid) ==
  LET Test(i) == IsWorthALook(i, high, mid) IN Take(SelectSeq(its, Test), WorthALookCap)

\* variant: the [:10] slice is left out
QuickHitsOfUncapped(its, mid) ==
  LET Test(i) == IsQuickHit(i, mid) IN SelectSeq(its, Test)

QuickHitsOf(its, mid) ==
  LET Test(i) == IsQuickHit(i, mid) IN Take(SelectSeq(its, Test), QuickHitsCap)

\* variant: the fallback also tops up a must_know that is not full
FallbackFiresUnderfull(mk, wal) == Len(mk) < MustKnowCap /\ wal # <<>>

FallbackFires(mk, wal) == mk = <<>> /\ wal # <<>>

\* ----------------------------------------------------------------- actions
\* no run of generate_digest.main has started
MainIdle ==
  /\ today = 1
  /\ digests = <<>>
  /\ sent = {}
  /\ runs = 0
  /\ stored_at_start = FALSE

\* neither ingest_rss.main nor summarize.main runs
BatchIdle ==
  /\ prog = "none"
  /\ bpc = "idle"
  /\ units = 0
  /\ idx = 0
  /\ attempted = {}
  /\ stored = {}
  /\ successful = 0
  /\ failed = 0
  /\ total_new = 0
  /\ total_skipped = 0

\* the locals of build_digest before its first line
BuildLocalsFresh ==
  /\ items = <<>>
  /\ max_score = 0
  /\ high_threshold = 0
  /\ mid_threshold = 0
  /\ must_know = <<>>
  /\ worth_a_look = <<>>
  /\ quick_hits = <<>>

Init ==
  /\ summaries \in Pools
  /\ pc = "start"
  /\ BuildLocalsFresh
  /\ MainIdle
  /\ BatchIdle

\* lines 70-88: the loop that builds items
Collect ==
  /\ pc = "start"
  /\ items' = CollectItems(summaries)
  /\ pc' = "collected"
  /\ UNCHANGED <<summaries, max_score, high_threshold, mid_threshold,
                 must_know, worth_a_look, quick_hits>>
  /\ UNCHANGED <<mainVars, batchVars>>

\* line 90: the sort raises when two keys are compared and one is None
SortItems ==
  /\ pc = "collected"
  /\ IF Len(items) >= 2 /\ HasNoneScore(items)
     THEN pc' = "raised" /\ UNCHANGED items
     ELSE pc' = "sorted" /\ items' = SortDesc(items)
  /\ UNCHANGED <<summaries, max_score, high_threshold, mid_threshold,
                 must_know, worth_a_look, quick_hits>>
  /\ UNCHANGED <<mainVars, batchVars>>

\* lines 92-95: None * 0.7 raises TypeError
Thresholds ==
  /\ pc = "sorted"
  /\ IF HasNoneScore(items)
     THEN /\ pc' = "raised"
          /\ UNCHANGED <<max_score, high_threshold, mid_threshold>>
     ELSE /\ pc' = "thresholds"
          /\ max_score' = MaxScore(items)
          /\ high_threshold' = HighThreshold(MaxScore(items))
          /\ mid_threshold' = MidThreshold(MaxScore(items))
  /\ UNCHANGED <<summaries, items, must_know, worth_a_look, quick_hits>>
  /\ UNCHANGED <<mainVars, batchVars>>

\* lines 97-99
Partition ==
  /\ pc = "thresholds"
  /\ must_know' = MustKnowOf(items, high_threshold)
  /\ worth_a_look' = WorthALookOf(items, high_threshold, mid_threshold)
  /\ quick_hits' = QuickHitsOf(items, mid_threshold)
  /\ pc' = "partitioned"
  /\ UNCHANGED <<summaries, items, max_score, high_threshold, mid_threshold>>
  /\ UNCHANGED <<mainVars, batchVars>>

\* lines 101-109: the fallback, then the return
Fallback ==
  /\ pc = "partitioned"
  /\ IF FallbackFires(must_know, worth_a_look)
     THEN /\ must_know' = Take(worth_a_look, FallbackCount)
          /\ worth_a_look' = Drop(worth_a_look, FallbackCount)
     ELSE UNCHANGED <<must_know, worth_a_look>>
  /\ pc' = "done"
  /\ UNCHANGED <<summaries, items, max_score, high_threshold, mid_threshold,
                 quick_hits>>
  /\ UNCHANGED <<mainVars, batchVars>>

Next == Collect \/ SortItems \/ Thresholds \/ Partition \/ Fallback

Spec == Init /\ [][Next]_vars

\* ------------------------------------------------- generate_digest.main
\* rows that get_recent_summaries hands to main
MainSummaries ==
  { Summary("obj", "int", 0, "false"),
    Summary("obj", "int", 20, "false"),
    Summary("obj", "int", 70, "true"),
    Summary("obj", "null", 0, "false") }

MainPools == UNION {[1..n -> MainSummaries] : n \in 0..MaxMainLen}

\* response.status_code of the Resend API
StatusCodes == {200, 422, 500}

\* the dict that build_digest returned
Content ==
  [must_know |-> must_know, worth_a_look |-> worth_a_look, quick_hits |-> quick_hits]

\* line 199
Total(c) == Len(c.must_know) + Len(c.worth_a_look) + Len(c.quick_hits)

\* variant: the check of line 209 is left out
NothingForDigestNever(total) == FALSE

\* line 209: if total == 0
NothingForDigest(total) == total = 0

\* variant: every response counts as a success
SendSucceededAlways(status) == TRUE

\* line 175: response.status_code == 200
SendSucceeded(status) == status = 200

\* line 214: delete().eq('date', today)
DeleteFor(table, d) ==
  LET Keep(row) == row.date # d IN SelectSeq(table, Keep)

\* lines 216-220: the inserted row
NewDigestRow(d, c) == [date |-> d, content |-> c, email_sent |-> FALSE]

\* line 228: update({'email_sent': True}).eq('date', today)
MarkSentFor(table, d) ==
  [k \in 1..Len(table) |->
     IF table[k].date = d THEN [table[k] EXCEPT !.email_sent = TRUE] ELSE table[k]]

\* main is not running: before the first run, after sys.exit(1), after an
\* uncaught exception, or after the last line
RunEnded == pc \in {"idle", "exit1", "crashed", "raised", "complete"}

InitMain ==
  /\ summaries = <<>>
  /\ pc = "idle"
  /\ BuildLocalsFresh
  /\ MainIdle
  /\ BatchIdle

\* lines 177-187: a new run; the credentials check, the client, today
StartRun ==
  /\ RunEnded
  /\ runs < MaxRuns
  /\ \E d \in today..MaxDay, credentials \in BOOLEAN :
       /\ today' = d
       /\ stored_at_start' = (\E k \in 1..Len(digests) : digests[k].date = d)
       /\ pc' = IF credentials THEN "main" ELSE "exit1"
  /\ runs' = runs + 1
  /\ summaries' = <<>>
  /\ items' = <<>>
  /\ max_score' = 0
  /\ high_threshold' = 0
  /\ mid_threshold' = 0
  /\ must_know' = <<>>
  /\ worth_a_look' = <<>>
  /\ quick_hits' = <<>>
  /\ UNCHANGED <<digests, sent, batchVars>>

\* lines 189-198: get_recent_summaries returns a pool or raises; an empty pool
\* ends the run, any other is passed to build_digest
FetchSummaries ==
  /\ pc = "main"
  /\ \/ /\ pc' = "crashed"
        /\ UNCHANGED summaries
     \/ \E pool \in MainPools :
          /\ summaries' = pool
          /\ pc' = IF pool = <<>> THEN "exit1" ELSE "start"
  /\ UNCHANGED <<items, max_score, high_threshold, mid_threshold,
                 must_know, worth_a_look, quick_hits, mainVars, batchVars>>

\* lines 199-211: the counts are printed (item['title'][:55] raises when a
\* title of must_know is null), then an empty digest ends the run
CheckTotal ==
  /\ pc = "done"
  /\ \/ /\ must_know # <<>>
        /\ pc' = "crashed"
     \/ pc' = IF NothingForDigest(Total(Content)) THEN "exit1" ELSE "save"
  /\ UNCHANGED <<summaries, items, max_score, high_threshold, mid_threshold,
                 must_know, worth_a_look, quick_hits, mainVars, batchVars>>

\* line 214: the rows of today are deleted, or the request raises
DeleteToday ==
  /\ pc = "save"
  /\ \/ /\ pc' = "crashed"
        /\ UNCHANGED digests
     \/ /\ digests' = DeleteFor(digests, today)
        /\ pc' = "insert"
  /\ UNCHANGED <<summaries, items, max_score, high_threshold, mid_threshold,
                 must_know, worth_a_look, quick_hits,
                 today, sent, runs, stored_at_start, batchVars>>

\* lines 216-221: the row of today is inserted, or the request raises
InsertDigest ==
  /\ pc = "insert"
  /\ \/ /\ pc' = "crashed"
        /\ UNCHANGED digests
     \/ /\ digests' = Append(digests, NewDigestRow(today, Content))
        /\ pc' = "send"
  /\ UNCHANGED <<summaries, items, max_score, high_threshold, mid_threshold,
                 must_know, worth_a_look, quick_hits,
                 today, sent, runs, stored_at_start, batchVars>>

\* lines 224-231 and send_email, lines 157-175: the request raises, or Resend
\* answers; it has accepted the email exactly when it answers 200
SendEmail ==
  /\ pc = "send"
  /\ \/ /\ pc' = "crashed"
        /\ UNCHANGED sent
     \/ \E status \in StatusCodes :
          /\ sent' = IF status = 200
                     THEN sent \cup {[date |-> today, content |-> Content]}
                     ELSE sent
          /\ pc' = IF SendSucceeded(status) THEN "mark" ELSE "exit1"
  /\ UNCHANGED <<summaries, items, max_score, high_threshold, mid_threshold,
                 must_know, worth_a_look, quick_hits,
                 today, digests, runs, stored_at_start, batchVars>>

\* lines 225-235: email_sent is set on the rows of today, or the request raises
MarkSent ==
  /\ pc = "mark"
  /\ \/ /\ pc' = "crashed"
        /\ UNCHANGED digests
     \/ /\ digests' = MarkSentFor(digests, today)
        /\ pc' = "complete"
  /\ UNCHANGED <<summaries, items, max_score, high_threshold, mid_threshold,
                 must_know, worth_a_look, quick_hits,
                 today, sent, runs, stored_at_start, batchVars>>

NextMain ==
  \/ StartRun \/ FetchSummaries
  \/ Collect \/ SortItems \/ Thresholds \/ Partition \/ Fallback
  \/ CheckTotal \/ DeleteToday \/ InsertDigest \/ SendEmail \/ MarkSent

SpecMain == InitMain /\ [][NextMain]_vars

\* ------------------------------------- ingest_rss.main and summarize.main
\* what one entry of a feed does to the body of the inner loop, lines 78-103
EntryKinds == {"new", "known", "old", "bad_title", "insert_fails"}

\* what feedparser.parse(source['url']) gives: an exception or the entries
SourceFeeds ==
  {[error |-> "KeyError", entries |-> <<>>]}
  \cup {[error |-> "none", entries |-> e] :
          e \in UNION {[1..n -> EntryKinds] : n \in 0..MaxEntries}}

\* what happens on one item of summarize.main, lines 149-175
ItemOutcomes == {"ok", "parse_error", "title_none", "api_fails", "insert_fails"}

\* the exception an entry raises, lines 94 and 101
EntryError(kind) ==
  IF kind = "bad_title" THEN "TypeError"
  ELSE IF kind = "insert_fails" THEN "APIError"
  ELSE "none"

\* the exception an item raises, lines 158, 159 and 161-170; a parse error
\* is handled inside summarize_item (lines 100-110)
ItemError(outcome) ==
  IF outcome = "title_none" THEN "TypeError"
  ELSE IF outcome \in {"api_fails", "insert_fails"} THEN "APIError"
  ELSE "none"

\* lines 78-103: the entries from position k on; new is the set of entries
\* inserted, skipped the entries counted as old, error the exception that
\* ended the loop
RECURSIVE RunEntries(_, _, _, _)
RunEntries(entries, k, new, skipped) ==
  IF k > Len(entries) THEN [new |-> new, skipped |-> skipped, error |-> "none"]
  ELSE IF EntryError(entries[k]) # "none"
       THEN [new |-> new, skipped |-> skipped, error |-> EntryError(entries[k])]
  ELSE IF entries[k] = "known" THEN RunEntries(entries, k + 1, new, skipped)
  ELSE IF entries[k] = "old" THEN RunEntries(entries, k + 1, new, skipped + 1)
  ELSE RunEntries(entries, k + 1, new \cup {k}, skipped)

\* lines 75-103: the try body for one source
RunSource(feed) ==
  IF feed.error # "none" THEN [new |-> {}, skipped |-> 0, error |-> feed.error]
  ELSE RunEntries(feed.entries, 1, {}, 0)

\* variant: the handler names one exception class
IngestCatchesKeyError(e) == e = "KeyError"

\* ingest_rss.py line 109: except Exception
IngestCatches(e) == e \in {"KeyError", "TypeError", "APIError"}

\* summarize.py line 177: except Exception
SummarizeCatches(e) == e \in {"KeyError", "TypeError", "APIError"}

InitBatch ==
  /\ summaries = <<>>
  /\ pc = "idle"
  /\ BuildLocalsFresh
  /\ MainIdle
  /\ prog \in {"ingest", "summarize"}
  /\ bpc = "start"
  /\ units \in 0..MaxUnits
  /\ idx = 0
  /\ attempted = {}
  /\ stored = {}
  /\ successful = 0
  /\ failed = 0
  /\ total_new = 0
  /\ total_skipped = 0

\* ingest_rss.py lines 50-71: the queries for the sources and the known urls
\* raise, or the loop starts
IngestStart ==
  /\ prog = "ingest"
  /\ bpc = "start"
  /\ \/ bpc' = "crashed" /\ UNCHANGED idx
     \/ bpc' = "loop" /\ idx' = 1
  /\ UNCHANGED <<buildVars, mainVars, prog, units, attempted, stored,
                 successful, failed, total_new, total_skipped>>

\* ingest_rss.py lines 73-110: one source
IngestSource ==
  /\ prog = "ingest"
  /\ bpc = "loop"
  /\ idx <= units
  /\ \E feed \in SourceFeeds :
       LET r == RunSource(feed) IN
         /\ attempted' = attempted \cup {idx}
         /\ stored' = stored \cup {<<idx, e>> : e \in r.new}
         /\ total_skipped' = total_skipped + r.skipped
         /\ total_new' = IF r.error = "none" THEN total_new + Cardinality(r.new)
                         ELSE total_new
         /\ IF r.error # "none" /\ ~IngestCatches(r.error)
            THEN bpc' = "aborted" /\ UNCHANGED idx
            ELSE bpc' = "loop" /\ idx' = idx + 1
  /\ UNCHANGED <<buildVars, mainVars, prog, units, successful, failed>>

\* ingest_rss.py lines 112-114
IngestSummary ==
  /\ prog = "ingest"
  /\ bpc = "loop"
  /\ idx > units
  /\ bpc' = "summary"
  /\ UNCHANGED <<buildVars, mainVars, prog, units, idx, attempted, stored,
                 successful, failed, total_new, total_skipped>>

\* summarize.py lines 117-146: the queries raise, or there is nothing to
\* summarize and main returns, or the loop starts
SummarizeStart ==
  /\ prog = "summarize"
  /\ bpc = "start"
  /\ \/ bpc' = "crashed" /\ UNCHANGED idx
     \/ /\ bpc' = IF units = 0 THEN "returned" ELSE "loop"
        /\ idx' = 1
  /\ UNCHANGED <<buildVars, mainVars, prog, units, attempted, stored,
                 successful, failed, total_new, total_skipped>>

\* summarize.py lines 148-179: one item
SummarizeItem ==
  /\ prog = "summarize"
  /\ bpc = "loop"
  /\ idx <= units
  /\ \E outcome \in ItemOutcomes :
       LET e == ItemError(outcome) IN
         /\ attempted' = attempted \cup {idx}
         /\ stored' = IF e = "none" THEN stored \cup {idx} ELSE stored
         /\ successful' = IF e = "none" THEN successful + 1 ELSE successful
         /\ failed' = IF e # "none" /\ SummarizeCatches(e) THEN failed + 1 ELSE failed
         /\ IF e # "none" /\ ~SummarizeCatches(e)
            THEN bpc' = "aborted" /\ UNCHANGED idx
            ELSE bpc' = "loop" /\ idx' = idx + 1
  /\ UNCHANGED <<buildVars, mainVars, prog, units, total_new, total_skipped>>

\* summarize.py lines 181-183
SummarizeSummary ==
  /\ prog = "summarize"
  /\ bpc = "loop"
  /\ idx > units
  /\ bpc' = "summary"
  /\ UNCHANGED <<buildVars, mainVars, prog, units, idx, attempted, stored,
                 successful, failed, total_new, total_skipped>>

NextBatch ==
  \/ IngestStart \/ IngestSource \/ IngestSummary
  \/ SummarizeStart \/ SummarizeItem \/ SummarizeSummary

\* each program runs its statements one after the other until it ends
SpecBatch == InitBatch /\ [][NextBatch]_vars /\ WF_vars(NextBatch)

\* ------------------------------------------------- vocabulary of the claims
Range(seq) == {seq[k] : k \in 1..Len(seq)}
Ids(seq) == {seq[k].id : k \in 1..Len(seq)}
Returned == pc = "done"
InTiers == Ids(must_know) \cup Ids(worth_a_look) \cup Ids(quick_hits)
NonIncreasing(seq) ==
  \A k \in 1..(Len(seq) - 1) : seq[k].relevance_score >= seq[k + 1].relevance_score
\* the tiers as lines 97-99 left them, recomputed from the sorted items
FallbackFired ==
  FallbackFires(MustKnowOf(items, high_threshold),
                WorthALookOf(items, high_threshold, mid_threshold))
MustReadItems == {i \in Range(items) : Truthy(i)}
InInterval(i) ==
  mid_threshold <= i.relevance_score * Tenths /\ i.relevance_score * Tenths < high_threshold

\* C1: no item appears in more than one of must_know, worth_a_look and
\* quick_hits of the returned digest.
C1_PartitionExclusive ==
  Returned =>
    /\ Ids(must_know) \cap Ids(worth_a_look) = {}
    /\ Ids(must_know) \cap Ids(quick_hits) = {}
    /\ Ids(worth_a_look) \cap Ids(quick_hits) = {}

\* C2 as stated: every must-read item with a nonzero score is in must_know,
\* except when the pool holds more than 3 must-read items, and then must_know
\* is the 3 must-read items with the highest scores.
C2_MustReadElevationAsStated ==
  Returned =>
    IF Cardinality(MustReadItems) <= MustKnowCap
    THEN \A i \in MustReadItems : i.relevance_score # 0 => i.id \in Ids(must_know)
    ELSE /\ Len(must_know) = MustKnowCap
         /\ Range(must_know) \subseteq MustReadItems
         /\ \A i \in MustReadItems : \A j \in Range(must_know) :
              i.id \notin Ids(must_know) => j.relevance_score >= i.relevance_score

\* C2 amended: every must-read item with a nonzero score is in must_know
\* unless must_know is filled to its cap of 3 by items scoring at least as
\* much (must-read items or items at or above high_threshold).
C2_MustReadElevation ==
  Returned =>
    \A i \in MustReadItems :
      i.relevance_score # 0 =>
        \/ i.id \in Ids(must_know)
        \/ /\ Len(must_know) = MustKnowCap
           /\ \A j \in Range(must_know) : j.relevance_score >= i.relevance_score

\* a must-read item is cut from must_know though the pool has at most 3
\* must-read items
C2_Witness ==
  /\ Returned
  /\ Cardinality(MustReadItems) <= MustKnowCap
  /\ \E i \in MustReadItems : i.relevance_score # 0 /\ i.id \notin Ids(must_know)

\* C3: the digest has at most 3 items in must_know, 7 in worth_a_look and 10
\* in quick_hits, before and after the fallback.
C3_CapEnforcement ==
  pc \in {"partitioned", "done"} =>
    /\ Len(must_know) <= 3
    /\ Len(worth_a_look) <= 7
    /\ Len(quick_hits) <= 10

\* the fallback promoted items out of a worth_a_look that the cap had cut
C3_Witness ==
  /\ Returned
  /\ FallbackFired
  /\ Len(items) > 7
  /\ Len(must_know) + Len(worth_a_look) = 7

\* C4: within each tier the scores are non-increasing by position, before and
\* after the fallback.
C4_TierOrdering ==
  pc \in {"partitioned", "done"} =>
    /\ NonIncreasing(must_know)
    /\ NonIncreasing(worth_a_look)
    /\ NonIncreasing(quick_hits)

\* a pool that arrived in ascending order, tiered and promoted by the fallback
C4_Witness ==
  /\ Returned
  /\ FallbackFired
  /\ Len(must_know) = 2
  /\ must_know[1].relevance_score > must_know[2].relevance_score
  /\ must_know[1].id > must_know[2].id

\* C5: the step from the partitioned tiers to the returned ones moves the top
\* 2 items of worth_a_look (all of them if there is one) into an empty
\* must_know and removes them from worth_a_look; it changes no tier when
\* must_know holds 1 to 3 items or worth_a_look is empty.
C5_FallbackPromotion ==
  [][pc = "partitioned" =>
      /\ quick_hits' = quick_hits
      /\ IF Len(must_know) = 0 /\ Len(worth_a_look) > 0
         THEN /\ Len(must_know') = (IF Len(worth_a_look) = 1 THEN 1 ELSE 2)
              /\ \A k \in 1..Len(must_know') : must_know'[k] = worth_a_look[k]
              /\ Len(worth_a_look') = Len(worth_a_look) - Len(must_know')
              /\ \A k \in 1..Len(worth_a_look') :
                   worth_a_look'[k] = worth_a_look[k + Len(must_know')]
              /\ must_know' # <<>>
         ELSE must_know' = must_know /\ worth_a_look' = worth_a_look]_vars

\* the fallback fired and left items behind in worth_a_look
C5_Witness ==
  /\ Returned
  /\ FallbackFired
  /\ Len(must_know) = 2
  /\ worth_a_look # <<>>

\* C6: no item whose relevance_score is 0 is in any tier, whatever its
\* must_read flag.
C6_ZeroScoreExcludedWhateverFlag ==
  Returned => \A i \in Range(items) : i.relevance_score = 0 => i.id \notin InTiers

\* C7: an item with relevance_score 0 and must_read not true is in no tier,
\* also after the fallback.
C7_ZeroScoreExclusion ==
  pc \in {"partitioned", "done"} =>
    \A i \in Range(items) :
      (i.relevance_score = 0 /\ ~Truthy(i)) => i.id \notin InTiers

\* a pool with such an item on which the fallback fired
C7_Witness ==
  /\ Returned
  /\ FallbackFired
  /\ \E i \in Range(items) : i.relevance_score = 0 /\ ~Truthy(i)

\* C8: scores are clamped into [0,100] before the thresholds are derived:
\* max_score is in [0,100], high_threshold <= 70, mid_threshold <= 40.
C8_ScoresClamped ==
  pc \in {"thresholds", "partitioned", "done"} =>
    /\ max_score \in 0..100
    /\ high_threshold <= 70 * Tenths
    /\ mid_threshold <= 40 * Tenths

\* C9: build_digest never raises, whatever the shape of the summary rows.
C9_NeverRaises == pc # "raised"

\* the scores of the pool as the sort and the filters see them
PoolScores == {i.relevance_score : i \in Range(items)}
IsPoolMax(m) ==
  IF items = <<>> THEN m = 0 ELSE m \in PoolScores /\ \A s \in PoolScores : s <= m
ThresholdsAsDerived ==
  /\ IsPoolMax(max_score)
  /\ high_threshold >= 7 * max_score /\ high_threshold >= 600
  /\ high_threshold \in {7 * max_score, 600}
  /\ mid_threshold >= 4 * max_score /\ mid_threshold >= 300
  /\ mid_threshold \in {4 * max_score, 300}
  /\ (\A s \in PoolScores : s < 60) => high_threshold = 600 /\ mid_threshold = 300

\* C10 as stated: high_threshold = max(0.7 * max_score, 60) and mid_threshold
\* = max(0.4 * max_score, 30), both exactly at their floors when every score
\* is below 60, and a non-must-read item is in worth_a_look exactly when
\* mid_threshold <= score < high_threshold.
C10_ThresholdFloorAsStated ==
  Returned =>
    /\ ThresholdsAsDerived
    /\ \A i \in Range(items) :
         ~Truthy(i) => (i.id \in Ids(worth_a_look) <=> InInterval(i))

\* the non-must-read items of the half-open interval that the digest kept
KeptFromInterval ==
  {i \in Range(must_know) \cup Range(worth_a_look) : ~Truthy(i) /\ InInterval(i)}

\* C10 amended: the thresholds are as stated; a non-must-read item is in
\* worth_a_look only if mid_threshold <= score < high_threshold, and every
\* such item is in worth_a_look unless the cap of 7 cut it or the fallback
\* promoted it into must_know.
C10_ThresholdFloor ==
  /\ pc \in {"thresholds", "partitioned", "done"} => ThresholdsAsDerived
  /\ Returned =>
       \A i \in Range(items) :
         ~Truthy(i) =>
           /\ i.id \in Ids(worth_a_look) => InInterval(i)
           /\ InInterval(i) =>
                \/ i.id \in Ids(worth_a_look)
                \/ i.id \in Ids(must_know) /\ FallbackFired
                \/ Cardinality(KeptFromInterval) = 7

\* every score is below 60, the fallback fired, and an item scoring exactly
\* mid_threshold stayed in worth_a_look
C10_Witness ==
  /\ Returned
  /\ items # <<>>
  /\ \A s \in PoolScores : s < 60
  /\ FallbackFired
  /\ \E i \in Range(worth_a_look) : i.relevance_score * Tenths = mid_threshold

\* no row of the pool carries an item (the empty pool included)
NoAttachedItem ==
  \A k \in 1..Len(summaries) : summaries[k].item \in {"null", "emptylist"}

\* C11: on an empty pool, or a pool in which no summary has an attached item,
\* build_digest does not raise, takes max_score as 0 and returns three empty
\* tiers, before and after the fallback step.
C11_EmptyInput ==
  NoAttachedItem =>
    /\ pc # "raised"
    /\ pc \in {"thresholds", "partitioned", "done"} => max_score = 0
    /\ pc \in {"partitioned", "done"} =>
         must_know = <<>> /\ worth_a_look = <<>> /\ quick_hits = <<>>

\* build_digest returned on a non-empty pool whose rows all lack an item
C11_Witness ==
  /\ Returned
  /\ summaries # <<>>
  /\ NoAttachedItem

\* items of equal score keep the order of the input pool
TiesInInputOrder(seq) ==
  \A k \in 1..Len(seq) : \A l \in (k + 1)..Len(seq) :
    seq[k].relevance_score = seq[l].relevance_score => seq[k].id < seq[l].id

\* C14: every item kept in a tier scores at least as much as every item that
\* met the tier's condition and was cut by the cap, and items of equal score
\* are in the tier in the order of the input pool.
C14_TopNStable ==
  pc \in {"partitioned", "done"} =>
    /\ \A i \in Range(must_know) : \A j \in Range(items) :
         (IsMustKnow(j, high_threshold) /\ j.id \notin Ids(must_know))
           => i.relevance_score >= j.relevance_score
    /\ \A i \in Range(worth_a_look) : \A j \in Range(items) :
         (/\ IsWorthALook(j, high_threshold, mid_threshold)
          /\ j.id \notin Ids(worth_a_look)
          /\ j.id \notin Ids(must_know))
           => i.relevance_score >= j.relevance_score
    /\ \A i \in Range(quick_hits) : \A j \in Range(items) :
         (IsQuickHit(j, mid_threshold) /\ j.id \notin Ids(quick_hits))
           => i.relevance_score >= j.relevance_score
    /\ TiesInInputOrder(must_know)
    /\ TiesInInputOrder(worth_a_look)
    /\ TiesInInputOrder(quick_hits)

\* the cap of 10 cut an item from quick_hits, which holds items of equal score
C14_Witness ==
  /\ Returned
  /\ Len(quick_hits) = 10
  /\ \E j \in Range(items) : IsQuickHit(j, mid_threshold) /\ j.id \notin Ids(quick_hits)
  /\ quick_hits[1].relevance_score = quick_hits[2].relevance_score

\* number of rows of the digests table for date d
RowsOf(d) == Cardinality({k \in 1..Len(digests) : digests[k].date = d})
TodayRowUnsent == \E k \in 1..Len(digests) : digests[k].date = today /\ ~digests[k].email_sent

\* C12: a run whose pool is empty, or whose digest has three empty tiers, ends
\* with sys.exit(1); the digests table and the emails sent change only in a
\* run whose pool and digest are not empty.
C12_SkipOnEmptyDigest ==
  [][/\ (pc = "main" /\ pc' # "crashed" /\ summaries' = <<>>) => pc' = "exit1"
     /\ (pc = "done" /\ Total(Content) = 0) => pc' = "exit1"
     /\ (digests' # digests \/ sent' # sent) =>
          summaries # <<>> /\ Total(Content) > 0]_vars

\* a run ended on an empty digest and left the row of an earlier run alone
C12_Witness ==
  /\ pc = "exit1"
  /\ summaries # <<>>
  /\ Total(Content) = 0
  /\ digests # <<>>

\* C13: the digests table holds at most one row per date, the row of today
\* carries the content of the run that stored it, and a run that started with
\* a row for today does not end with none.
C13_StoredOncePerDate ==
  /\ \A d \in 1..MaxDay : RowsOf(d) <= 1
  /\ pc \in {"send", "mark", "complete"} =>
       \E k \in 1..Len(digests) : digests[k].date = today /\ digests[k].content = Content
  /\ (RunEnded /\ stored_at_start) => RowsOf(today) >= 1

\* C16: a row with email_sent = True is a row whose content Resend accepted
\* for its date; the row of today is stored with email_sent = False when the
\* email is attempted; email_sent turns True only in the step after a
\* successful send; a failed send leaves the row stored with email_sent = False.
C16_EmailSentReflectsSend ==
  /\ [](\A k \in 1..Len(digests) :
          digests[k].email_sent =>
            [date |-> digests[k].date, content |-> digests[k].content] \in sent)
  /\ [](pc = "send" => TodayRowUnsent)
  /\ [][(\E k \in 1..Len(digests') :
           /\ digests'[k].email_sent
           /\ ~(k <= Len(digests) /\ digests[k] = digests'[k]))
         => (pc = "mark" /\ [date |-> today, content |-> Content] \in sent)]_vars
  /\ [][(pc = "send" /\ pc' \in {"exit1", "crashed"}) =>
          (digests' = digests /\ TodayRowUnsent')]_vars

\* a send failed and left today's row unsent, next to the sent row of another day
C16_Witness ==
  /\ pc = "exit1"
  /\ Total(Content) > 0
  /\ TodayRowUnsent
  /\ \E k \in 1..Len(digests) : digests[k].email_sent

\* C15: neither loop is left by an exception: every unit is entered, an
\* exception on a unit is followed by the next unit (and counted as failed in
\* summarize.main), and a loop that started reaches the final summary with
\* every unit entered.
C15_FailureDoesNotAbortBatch ==
  /\ [](bpc # "aborted")
  /\ [](bpc = "summary" =>
          /\ attempted = 1..units
          /\ prog = "summarize" => successful + failed = units)
  /\ [][attempted' # attempted =>
          /\ bpc' = "loop" /\ idx' = idx + 1
          /\ (prog = "summarize" /\ stored' = stored) => failed' = failed + 1]_vars
  /\ (bpc = "loop") ~> (bpc = "summary")

\* summarize.main reached its summary after an item failed and a later item
\* was stored
C15_Witness ==
  /\ prog = "summarize"
  /\ bpc = "summary"
  /\ failed >= 1
  /\ \E i \in attempted \ stored : \E j \in stored : j > i

====
